---- MODULE Spec2Model ----
(***************************************************************************)
(* Model of app.py: the scrape_books / load_data pipeline behind the two   *)
(* st.cache_data memoisations, and the sidebar filter over the dataset.    *)
(*                                                                         *)
(* Texts are sequences of one-character strings.  A pandas DataFrame is a  *)
(* record of equally long column sequences.  An optional value (None, an   *)
(* empty cache, NaN) is the empty sequence, a present value v is <<v>>.    *)
(***************************************************************************)
EXTENDS Integers, Sequences, FiniteSets, TLC

VARIABLES
    pc,              \* position of the script run
    page,            \* loop variable of `for page in range(1, 6)`
    books,           \* soup.find_all("article", class_="product_pod")
    bi,              \* 1-based position of `for book in books`
    titles, prices, availabilities, ratings, categories,   \* the five lists
    fetchLog,        \* requests.get calls issued by the current collection
    scrapeCache,     \* st.cache_data entry of scrape_books()
    loadCache,       \* st.cache_data entry of load_data()
    data,            \* module-level `data`
    sel,             \* sidebar widget values of the current run
    filtered_data,   \* module-level `filtered_data`
    err              \* exception that ended the current run, "" when none

vars == <<pc, page, books, bi, titles, prices, availabilities, ratings,
          categories, fetchLog, scrapeCache, loadCache, data, sel,
          filtered_data, err>>

scrapeLocals == <<page, books, bi, titles, prices, availabilities, ratings,
                  categories>>

(***************************************************************************)
(* Bounds and input sets                                                   *)
(***************************************************************************)
PageCount == 5
MaxBooks == 2
MaxTotal == 2
MaxRows == 2

None == <<>>
Some(v) == <<v>>
NaN == <<>>

Whitespace == {" "}
Digits == {"0", "1", "2", "3", "4", "5", "6", "7", "8", "9"}

DigitVal(c) ==
    CASE c = "0" -> 0 [] c = "1" -> 1 [] c = "2" -> 2 [] c = "3" -> 3
      [] c = "4" -> 4 [] c = "5" -> 5 [] c = "6" -> 6 [] c = "7" -> 7
      [] c = "8" -> 8 [] c = "9" -> 9

(***************************************************************************)
(* Text helpers                                                            *)
(***************************************************************************)
RECURSIVE LStrip(_)
LStrip(s) ==
    IF s # <<>> /\ Head(s) \in Whitespace THEN LStrip(Tail(s)) ELSE s

RECURSIVE RStrip(_)
RStrip(s) ==
    IF s # <<>> /\ s[Len(s)] \in Whitespace
    THEN RStrip(SubSeq(s, 1, Len(s) - 1))
    ELSE s

\* str.strip()
Strip(s) == RStrip(LStrip(s))

\* s[1:]
DropFirst(s) == IF s = <<>> THEN <<>> ELSE Tail(s)

StartsWith(s, p) == Len(s) >= Len(p) /\ SubSeq(s, 1, Len(p)) = p

\* str.replace(pat, ''): every non-overlapping occurrence, left to right
RECURSIVE RemoveAll(_, _)
RemoveAll(s, pat) ==
    IF s = <<>> THEN <<>>
    ELSE IF StartsWith(s, pat)
         THEN RemoveAll(SubSeq(s, Len(pat) + 1, Len(s)), pat)
         ELSE <<Head(s)>> \o RemoveAll(Tail(s), pat)

(***************************************************************************)
(* float(text): surrounding whitespace is ignored; the rest must be digits *)
(* with at most one point and at least one digit.  Signs, exponents,       *)
(* underscores, "inf" and "nan" need characters the input texts below do   *)
(* not use.  The value is kept exact as m * 10^-e with no trailing zero in *)
(* the fraction.                                                           *)
(***************************************************************************)
AllDigits(s) == \A i \in 1..Len(s) : s[i] \in Digits

PointAt(s) ==
    IF \E i \in 1..Len(s) : s[i] = "."
    THEN CHOOSE i \in 1..Len(s) : s[i] = "." /\ \A j \in 1..(i-1) : s[j] # "."
    ELSE 0

IntPart(s) == IF PointAt(s) = 0 THEN s ELSE SubSeq(s, 1, PointAt(s) - 1)
FracPart(s) == IF PointAt(s) = 0 THEN <<>> ELSE SubSeq(s, PointAt(s) + 1, Len(s))

IsFloatLiteral(s) ==
    LET t == Strip(s) IN
        /\ AllDigits(IntPart(t))
        /\ AllDigits(FracPart(t))
        /\ Len(IntPart(t)) + Len(FracPart(t)) >= 1

RECURSIVE DigitsValue(_)
DigitsValue(s) ==
    IF s = <<>> THEN 0
    ELSE 10 * DigitsValue(SubSeq(s, 1, Len(s) - 1)) + DigitVal(s[Len(s)])

RECURSIVE Normalise(_)
Normalise(x) ==
    IF x.e > 0 /\ x.m % 10 = 0
    THEN Normalise([m |-> x.m \div 10, e |-> x.e - 1])
    ELSE x

FloatValue(s) ==
    LET t == Strip(s) IN
        Normalise([m |-> DigitsValue(IntPart(t) \o FracPart(t)),
                   e |-> Len(FracPart(t))])

RECURSIVE Pow10(_)
Pow10(n) == IF n = 0 THEN 1 ELSE 10 * Pow10(n - 1)

\* a <= b on float values
FloatLE(a, b) == a.m * Pow10(b.e) <= b.m * Pow10(a.e)

(***************************************************************************)
(* What the site can serve.  A listing document is the sequence of its     *)
(* product_pod articles; an article carries the title attribute of its     *)
(* link, the text of its price_color element, the text of its availability *)
(* element (each None when absent), the class list of its first <p> and    *)
(* the href.  A detail document is its ul.breadcrumb (None when absent) as *)
(* the sequence of its <li> texts.                                         *)
(***************************************************************************)
Titles == {"A", "B"}
GoodPriceTexts == { <<"£", "1", ".", "5">> }
BadPriceTexts ==
    { <<>>, <<"£">>, <<"£", "a">>, <<"£", "£", "1">>, <<"£", "1", ".", "5", "a">>,
      <<"£", ".">> }
AvailTexts == { <<" ", "I", "n", " ", "s", "t", "o", "c", "k", " ">> }
GoodClasses == { <<"star-rating", "Three">> }
BadClasses == { <<"star-rating">> }
UpPrefix == <<".", ".", "/", ".", ".", "/", ".", ".", "/">>
Hrefs == { UpPrefix \o <<"a", "_", "1">> }

GoodEntries ==
    [title : {Some(t) : t \in Titles}, price : {Some(t) : t \in GoodPriceTexts},
     avail : {Some(t) : t \in AvailTexts}, pclass : GoodClasses, href : Hrefs]

BaseEntry == CHOOSE e \in GoodEntries : e.title = Some("A")

BadEntries ==
    {[BaseEntry EXCEPT !.price = p] :
        p \in {None} \cup {Some(t) : t \in BadPriceTexts}}
    \cup {[BaseEntry EXCEPT !.pclass = c] : c \in BadClasses}
    \cup {[BaseEntry EXCEPT !.title = None], [BaseEntry EXCEPT !.avail = None]}

Entries == GoodEntries \cup BadEntries

SeqsUpTo(S, n) == UNION {[1..k -> S] : k \in 0..n}

Crumb(c) == <<" ", c, " ">>
GoodDetailDocs ==
    { Some(<<Crumb("H"), Crumb("K"), Crumb(c)>>) : c \in {"P", "F"} }
BadDetailDocs == { None, Some(<<Crumb("H"), Crumb("K")>>) }
DetailDocs == GoodDetailDocs \cup BadDetailDocs

(***************************************************************************)
(* scrape_books: URLs, field extraction, the DataFrame                     *)
(***************************************************************************)
CatalogueBase == "http://books.toscrape.com/catalogue/"

ListingUrl(p) == <<CatalogueBase, "page-", ToString(p), ".html">>

BookUrl(href) == <<CatalogueBase>> \o RemoveAll(href, UpPrefix)

\* lines 23-27: the error raised before the detail request, "" when none
ExtractError(e) ==
    IF e.title = None THEN "KeyError"
    ELSE IF e.price = None THEN "AttributeError"
    ELSE IF e.avail = None THEN "AttributeError"
    ELSE IF Len(e.pclass) < 2 THEN "IndexError"
    ELSE ""

\* line 31: the error raised by the breadcrumb lookup, "" when none
CategoryError(doc) ==
    IF doc = None THEN "AttributeError"
    ELSE IF Len(doc[1]) < 3 THEN "IndexError"
    ELSE ""

CategoryOffByOne(doc) == Strip(doc[1][2])

\* find_all("li")[2].text.strip()
Category(doc) == Strip(doc[1][3])

PriceTextStripsSymbol(e) == RemoveAll(e.price[1], <<"£">>)

\* price[1:]
PriceText(e) == DropFirst(e.price[1])

\* lines 23-37: the values appended for one book
Row(e, doc) ==
    [Title |-> e.title[1], Price |-> FloatValue(PriceText(e)),
     Availability |-> Strip(e.avail[1]), Rating |-> e.pclass[2],
     Category |-> Category(doc)]

DataFrame(t, p, a, r, c) ==
    [Title |-> t, Price |-> p, Availability |-> a, Rating |-> r, Category |-> c]

NRows(df) == Len(df.Title)

Fetch(kind, p, i, url, ok, doc) ==
    [kind |-> kind, page |-> p, idx |-> i, url |-> url, ok |-> ok, doc |-> doc]

\* an exception leaves the function and the script: no value is returned
Raise(e) ==
    /\ err' = e
    /\ pc' = "idle"
    /\ page' = 0 /\ books' = <<>> /\ bi' = 0
    /\ titles' = <<>> /\ prices' = <<>> /\ availabilities' = <<>>
    /\ ratings' = <<>> /\ categories' = <<>>
    /\ UNCHANGED <<scrapeCache, loadCache, data, sel, filtered_data>>

TotalRows == Len(titles)

PrependRow(col, v) == <<v>> \o col

\* list.append
AppendRow(col, v) == Append(col, v)

FetchListingFail ==
    /\ pc = "listing" /\ page <= PageCount
    /\ fetchLog' = Append(fetchLog,
                          Fetch("listing", page, 0, ListingUrl(page), FALSE, <<>>))
    /\ Raise("ConnectionError")

NextPageSkipsOne ==
    /\ page' = page + 2
    /\ pc' = "listing"
    /\ books' = <<>> /\ bi' = 0

\* the inner loop is over: next page
NextPage ==
    /\ page' = page + 1
    /\ pc' = "listing"
    /\ books' = <<>> /\ bi' = 0

FetchListingOkWith(doc) ==
    /\ pc = "listing" /\ page <= PageCount
    /\ fetchLog' = Append(fetchLog,
                          Fetch("listing", page, 0, ListingUrl(page), TRUE, doc))
    /\ IF doc = <<>>
       THEN NextPage
       ELSE /\ books' = doc /\ bi' = 1 /\ pc' = "book" /\ page' = page
    /\ UNCHANGED <<titles, prices, availabilities, ratings, categories,
                   scrapeCache, loadCache, data, sel, filtered_data, err>>

BookExtractFail ==
    /\ pc = "book"
    /\ ExtractError(books[bi]) # ""
    /\ UNCHANGED fetchLog
    /\ Raise(ExtractError(books[bi]))

BookDetailFetchSkip ==
    /\ pc = "book"
    /\ ExtractError(books[bi]) = ""
    /\ fetchLog' = Append(fetchLog,
          Fetch("detail", page, bi, BookUrl(books[bi].href), FALSE, <<>>))
    /\ IF bi < Len(books)
       THEN /\ bi' = bi + 1 /\ UNCHANGED <<pc, page, books>>
       ELSE /\ page' = page + 1 /\ pc' = "listing" /\ books' = <<>> /\ bi' = 0
    /\ UNCHANGED <<titles, prices, availabilities, ratings, categories,
                   scrapeCache, loadCache, data, sel, filtered_data, err>>

BookDetailFetchFail ==
    /\ pc = "book"
    /\ ExtractError(books[bi]) = ""
    /\ fetchLog' = Append(fetchLog,
          Fetch("detail", page, bi, BookUrl(books[bi].href), FALSE, <<>>))
    /\ Raise("ConnectionError")

BookDetailParseSkipWith(doc) ==
    /\ pc = "book"
    /\ ExtractError(books[bi]) = ""
    /\ CategoryError(doc) # ""
    /\ fetchLog' = Append(fetchLog,
          Fetch("detail", page, bi, BookUrl(books[bi].href), TRUE, doc))
    /\ IF bi < Len(books)
       THEN /\ bi' = bi + 1 /\ UNCHANGED <<pc, page, books>>
       ELSE /\ page' = page + 1 /\ pc' = "listing" /\ books' = <<>> /\ bi' = 0
    /\ UNCHANGED <<titles, prices, availabilities, ratings, categories,
                   scrapeCache, loadCache, data, sel, filtered_data, err>>

BookDetailParseFailWith(doc) ==
    /\ pc = "book"
    /\ ExtractError(books[bi]) = ""
    /\ CategoryError(doc) # ""
    /\ fetchLog' = Append(fetchLog,
          Fetch("detail", page, bi, BookUrl(books[bi].href), TRUE, doc))
    /\ Raise(CategoryError(doc))

BookPriceFailBeforeRequest(doc) ==
    /\ pc = "book"
    /\ ExtractError(books[bi]) = ""
    /\ ~IsFloatLiteral(PriceText(books[bi]))
    /\ UNCHANGED fetchLog
    /\ Raise("ValueError")

BookPriceFailWith(doc) ==
    /\ pc = "book"
    /\ ExtractError(books[bi]) = ""
    /\ CategoryError(doc) = ""
    /\ ~IsFloatLiteral(PriceText(books[bi]))
    /\ fetchLog' = Append(fetchLog,
          Fetch("detail", page, bi, BookUrl(books[bi].href), TRUE, doc))
    /\ Raise("ValueError")

BookAppendWith(doc) ==
    /\ pc = "book"
    /\ ExtractError(books[bi]) = ""
    /\ CategoryError(doc) = ""
    /\ IsFloatLiteral(PriceText(books[bi]))
    /\ fetchLog' = Append(fetchLog,
          Fetch("detail", page, bi, BookUrl(books[bi].href), TRUE, doc))
    /\ titles' = AppendRow(titles, Row(books[bi], doc).Title)
    /\ prices' = AppendRow(prices, Row(books[bi], doc).Price)
    /\ availabilities' = AppendRow(availabilities, Row(books[bi], doc).Availability)
    /\ ratings' = AppendRow(ratings, Row(books[bi], doc).Rating)
    /\ categories' = AppendRow(categories, Row(books[bi], doc).Category)
    /\ IF bi < Len(books)
       THEN /\ bi' = bi + 1 /\ UNCHANGED <<pc, page, books>>
       ELSE NextPage
    /\ UNCHANGED <<scrapeCache, loadCache, data, sel, filtered_data, err>>

Min(a, b) == IF a <= b THEN a ELSE b

\* the listing documents the site may serve, within the bounds
ListingDocs == SeqsUpTo(Entries, Min(MaxBooks, MaxTotal - TotalRows))

FetchListingOk ==
    /\ pc = "listing" /\ page <= PageCount
    /\ \E doc \in ListingDocs : FetchListingOkWith(doc)

BookDetailParseFail ==
    /\ pc = "book"
    /\ \E doc \in DetailDocs : BookDetailParseFailWith(doc)

BookPriceFail ==
    /\ pc = "book"
    /\ \E doc \in DetailDocs : BookPriceFailWith(doc)

BookAppend ==
    /\ pc = "book"
    /\ \E doc \in DetailDocs : BookAppendWith(doc)

ScrapeReturn ==
    /\ pc = "listing" /\ page > PageCount
    /\ scrapeCache' =
          Some(DataFrame(titles, prices, availabilities, ratings, categories))
    /\ pc' = "load_map"
    /\ page' = 0 /\ books' = <<>> /\ bi' = 0
    /\ titles' = <<>> /\ prices' = <<>> /\ availabilities' = <<>>
    /\ ratings' = <<>> /\ categories' = <<>>
    /\ UNCHANGED <<fetchLog, loadCache, data, sel, filtered_data, err>>

(***************************************************************************)
(* load_data: the rating map                                               *)
(***************************************************************************)
RatingMapSlip(tok) ==
    CASE tok = "One" -> Some(1)
      [] tok = "Two" -> Some(2)
      [] tok = "Three" -> Some(3)
      [] tok = "Four" -> Some(5)
      [] tok = "Five" -> Some(5)
      [] OTHER -> NaN

\* rating_map, applied by Series.map: a key that is not in the dict gives NaN
RatingMap(tok) ==
    CASE tok = "One" -> Some(1)
      [] tok = "Two" -> Some(2)
      [] tok = "Three" -> Some(3)
      [] tok = "Four" -> Some(4)
      [] tok = "Five" -> Some(5)
      [] OTHER -> NaN

\* df['Rating'] = df['Rating'].map(rating_map)
MapRating(df) ==
    [df EXCEPT !.Rating = [i \in 1..Len(df.Rating) |-> RatingMap(df.Rating[i])]]

LoadDataMap ==
    /\ pc = "load_map"
    /\ loadCache' = Some(MapRating(scrapeCache[1]))
    /\ data' = Some(MapRating(scrapeCache[1]))
    /\ pc' = "loaded"
    /\ UNCHANGED <<scrapeLocals, fetchLog, scrapeCache, sel, filtered_data, err>>

(***************************************************************************)
(* Sidebar widgets and the filter                                          *)
(***************************************************************************)
RatingOptions == 1..5

Unique(col) == {col[i] : i \in 1..Len(col)}

\* Series.min() / Series.max(): NaN on an empty column
PriceMin(df) ==
    IF df.Price = <<>> THEN NaN
    ELSE Some(CHOOSE v \in Unique(df.Price) :
                 \A w \in Unique(df.Price) : FloatLE(v, w))

PriceMax(df) ==
    IF df.Price = <<>> THEN NaN
    ELSE Some(CHOOSE v \in Unique(df.Price) :
                 \A w \in Unique(df.Price) : FloatLE(w, v))

DefaultSelection(df) ==
    [categories |-> Unique(df.Category),
     min_price |-> PriceMin(df), max_price |-> PriceMax(df),
     ratings |-> RatingOptions]

\* what the user can set the widgets to
Selections(df) ==
    LET stops == {PriceMin(df)} \cup {Some(v) : v \in Unique(df.Price)}
        ranges == {r \in stops \X stops :
                      r[1] # NaN => FloatLE(r[1][1], r[2][1])}
    IN  {[categories |-> c, min_price |-> r[1], max_price |-> r[2], ratings |-> R] :
            c \in SUBSET Unique(df.Category), r \in ranges,
            R \in SUBSET RatingOptions}

\* comparisons and isin on values that may be NaN
GE(x, lo) == lo # NaN /\ FloatLE(lo[1], x)
LEExclusive(x, hi) == hi # NaN /\ FloatLE(x, hi[1]) /\ x # hi[1]

LE(x, hi) == hi # NaN /\ FloatLE(x, hi[1])
IsIn(r, S) == r # NaN /\ r[1] \in S

Mask(df, s) ==
    [i \in 1..NRows(df) |->
        /\ df.Category[i] \in s.categories
        /\ GE(df.Price[i], s.min_price) /\ LE(df.Price[i], s.max_price)
        /\ IsIn(df.Rating[i], s.ratings)]

RECURSIVE Keep(_, _)
Keep(col, mask) ==
    IF col = <<>> THEN <<>>
    ELSE (IF Head(mask) THEN <<Head(col)>> ELSE <<>>)
         \o Keep(Tail(col), Tail(mask))

\* data[mask]
FilterFrame(df, s) ==
    LET mask == Mask(df, s)
    IN  DataFrame(Keep(df.Title, mask), Keep(df.Price, mask),
                  Keep(df.Availability, mask), Keep(df.Rating, mask),
                  Keep(df.Category, mask))

\* st.slider is given min_value = max_value, or NaN on an empty dataset:
\* whether it raises depends on the Streamlit release
SliderDegenerate(df) == PriceMin(df) = PriceMax(df)

RenderSliderError ==
    /\ pc = "loaded"
    /\ SliderDegenerate(data[1])
    /\ err' = "StreamlitAPIException"
    /\ pc' = "idle"
    /\ UNCHANGED <<scrapeLocals, fetchLog, scrapeCache, loadCache, data, sel,
                   filtered_data>>

Render(s) ==
    /\ pc = "loaded"
    /\ sel' = Some(s)
    /\ filtered_data' = Some(FilterFrame(data[1], s))
    /\ pc' = "idle"
    /\ UNCHANGED <<scrapeLocals, fetchLog, scrapeCache, loadCache, data, err>>

RenderDefault == Render(DefaultSelection(data[1]))

RenderSelected ==
    /\ pc = "loaded"
    /\ \E s \in Selections(data[1]) : Render(s)

(***************************************************************************)
(* Script runs and the cache                                               *)
(***************************************************************************)
ScriptRunRescrapes ==
    /\ pc = "idle"
    /\ loadCache # None
    /\ data' = None
    /\ err' = "" /\ fetchLog' = <<>> /\ sel' = None /\ filtered_data' = None
    /\ pc' = "listing" /\ page' = 1
    /\ UNCHANGED <<books, bi, titles, prices, availabilities, ratings,
                   categories, scrapeCache, loadCache>>

\* a rerun whose load_data() call is answered by the cache
ScriptRunHit ==
    /\ pc = "idle"
    /\ loadCache # None
    /\ data' = loadCache
    /\ pc' = "loaded"
    /\ err' = "" /\ fetchLog' = <<>> /\ sel' = None /\ filtered_data' = None
    /\ UNCHANGED <<scrapeLocals, scrapeCache, loadCache>>

\* a run whose load_data() call is computed; scrape_books() is looked up too
ScriptRunMiss ==
    /\ pc = "idle"
    /\ loadCache = None
    /\ data' = None
    /\ err' = "" /\ fetchLog' = <<>> /\ sel' = None /\ filtered_data' = None
    /\ IF scrapeCache # None
       THEN /\ pc' = "load_map" /\ UNCHANGED scrapeLocals
       ELSE /\ pc' = "listing" /\ page' = 1
            /\ UNCHANGED <<books, bi, titles, prices, availabilities, ratings,
                           categories>>
    /\ UNCHANGED <<scrapeCache, loadCache>>

\* "Clear cache" / st.cache_data.clear(), between two runs
ClearCache ==
    /\ pc = "idle"
    /\ scrapeCache # None \/ loadCache # None
    /\ scrapeCache' = None /\ loadCache' = None
    /\ UNCHANGED <<pc, scrapeLocals, fetchLog, data, sel, filtered_data, err>>

Init ==
    /\ pc = "idle"
    /\ page = 0 /\ books = <<>> /\ bi = 0
    /\ titles = <<>> /\ prices = <<>> /\ availabilities = <<>>
    /\ ratings = <<>> /\ categories = <<>>
    /\ fetchLog = <<>>
    /\ scrapeCache = None /\ loadCache = None
    /\ data = None /\ sel = None /\ filtered_data = None
    /\ err = ""

Next ==
    \/ ScriptRunHit
    \/ ScriptRunMiss
    \/ FetchListingFail
    \/ FetchListingOk
    \/ BookExtractFail
    \/ BookDetailFetchFail
    \/ BookDetailParseFail
    \/ BookPriceFail
    \/ BookAppend
    \/ ScrapeReturn
    \/ LoadDataMap
    \/ RenderSliderError
    \/ RenderDefault
    \/ ClearCache

Spec == Init /\ [][Next]_vars

(***************************************************************************)
(* load_data() on richer rating tokens: the state in which scrape_books()  *)
(* has just returned from a site whose first listing page holds the books  *)
(* and whose other pages hold none.                                        *)
(***************************************************************************)
RatingTokens == {"One", "Two", "Three", "Four", "Five", "Six"}

LoadEntries == {[BaseEntry EXCEPT !.pclass = <<"star-rating", t>>] : t \in RatingTokens}

LoadDetail == CHOOSE d \in GoodDetailDocs : Category(d) = <<"P">>

Column(doc, f) == [i \in 1..Len(doc) |-> Row(doc[i], LoadDetail)[f]]

PageOneLog(doc) ==
    <<Fetch("listing", 1, 0, ListingUrl(1), TRUE, doc)>>
    \o [i \in 1..Len(doc) |->
           Fetch("detail", 1, i, BookUrl(doc[i].href), TRUE, LoadDetail)]
    \o [p \in 1..(PageCount - 1) |->
           Fetch("listing", p + 1, 0, ListingUrl(p + 1), TRUE, <<>>)]

InitLoad ==
    /\ pc = "load_map"
    /\ page = 0 /\ books = <<>> /\ bi = 0
    /\ titles = <<>> /\ prices = <<>> /\ availabilities = <<>>
    /\ ratings = <<>> /\ categories = <<>>
    /\ \E doc \in SeqsUpTo(LoadEntries, MaxRows) :
          /\ fetchLog = PageOneLog(doc)
          /\ scrapeCache =
                Some(DataFrame(Column(doc, "Title"), Column(doc, "Price"),
                               Column(doc, "Availability"), Column(doc, "Rating"),
                               Column(doc, "Category")))
    /\ loadCache = None
    /\ data = None /\ sel = None /\ filtered_data = None
    /\ err = ""

NextLoad ==
    \/ LoadDataMap
    \/ RenderSliderError
    \/ RenderDefault
    \/ ScriptRunHit

SpecLoad == InitLoad /\ [][NextLoad]_vars

(***************************************************************************)
(* The filter on richer datasets: the state of a rerun in which            *)
(* load_data() has just been answered by the cache.                        *)
(***************************************************************************)
ViewPrices == {FloatValue(<<"1", ".", "5">>), FloatValue(<<"2">>)}

ViewRows ==
    [Title : {"A"}, Price : ViewPrices,
     Availability : {Strip(t) : t \in AvailTexts},
     Rating : {"One", "Five", "Six"}, Category : {<<"P">>, <<"F">>}]

FrameOf(rows) ==
    DataFrame([i \in 1..Len(rows) |-> rows[i].Title],
              [i \in 1..Len(rows) |-> rows[i].Price],
              [i \in 1..Len(rows) |-> rows[i].Availability],
              [i \in 1..Len(rows) |-> rows[i].Rating],
              [i \in 1..Len(rows) |-> rows[i].Category])

InitView ==
    /\ pc = "loaded"
    /\ page = 0 /\ books = <<>> /\ bi = 0
    /\ titles = <<>> /\ prices = <<>> /\ availabilities = <<>>
    /\ ratings = <<>> /\ categories = <<>>
    /\ fetchLog = <<>>
    /\ \E rows \in SeqsUpTo(ViewRows, MaxRows) :
          /\ scrapeCache = Some(FrameOf(rows))
          /\ loadCache = Some(MapRating(FrameOf(rows)))
          /\ data = Some(MapRating(FrameOf(rows)))
    /\ sel = None /\ filtered_data = None
    /\ err = ""

NextView ==
    \/ RenderSelected
    \/ RenderSliderError
    \/ ScriptRunHit

SpecView == InitView /\ [][NextView]_vars

(***************************************************************************)
(* Reading the request log                                                 *)
(***************************************************************************)
Last(q) == q[Len(q)]

IsListing(f) == f.kind = "listing"
IsDetail(f) == f.kind = "detail"

ListingAt(log, p) == {i \in 1..Len(log) : IsListing(log[i]) /\ log[i].page = p}
DetailAt(log, p, j) ==
    {i \in 1..Len(log) : IsDetail(log[i]) /\ log[i].page = p /\ log[i].idx = j}

\* the product pods of page p as the log saw them
PodsOf(log, p) ==
    IF ListingAt(log, p) = {} THEN <<>>
    ELSE log[CHOOSE i \in ListingAt(log, p) : TRUE].doc

\* every listing page was requested once and every book's detail page once,
\* all with success, and nothing else was requested
Complete(log) ==
    /\ \A i \in 1..Len(log) : log[i].ok
    /\ \A p \in 1..PageCount :
          /\ Cardinality(ListingAt(log, p)) = 1
          /\ \A j \in 1..Len(PodsOf(log, p)) : Cardinality(DetailAt(log, p, j)) = 1
    /\ \A i \in 1..Len(log) :
          /\ log[i].page \in 1..PageCount
          /\ IsDetail(log[i]) => log[i].idx \in 1..Len(PodsOf(log, log[i].page))

\* the books of pages p..PageCount in traversal order, as <<page, position>>
RECURSIVE BookKeys(_, _)
BookKeys(log, p) ==
    IF p > PageCount THEN <<>>
    ELSE [j \in 1..Len(PodsOf(log, p)) |-> <<p, j>>] \o BookKeys(log, p + 1)

PodOf(log, key) == PodsOf(log, key[1])[key[2]]
DetailOf(log, key) ==
    log[CHOOSE i \in DetailAt(log, key[1], key[2]) : TRUE].doc

FrameRow(df, k) ==
    [Title |-> df.Title[k], Price |-> df.Price[k],
     Availability |-> df.Availability[k], Rating |-> df.Rating[k],
     Category |-> df.Category[k]]

WellFormed(df) ==
    /\ DOMAIN df = {"Title", "Price", "Availability", "Rating", "Category"}
    /\ \A c \in DOMAIN df : Len(df[c]) = Len(df.Title)

CollectErrors ==
    {"ConnectionError", "KeyError", "AttributeError", "IndexError", "ValueError"}

\* the collection of this run is over: it raised, or it returned
RunEnded == fetchLog # <<>> /\ pc \in {"idle", "load_map", "loaded"}

(***************************************************************************)
(* C1: a failing fetch, listing or detail, ends the run with the failure   *)
(* raised to the caller: no fetch follows it in the run (no retry, no      *)
(* skip), and no dataset is returned or cached, not even the rows          *)
(* accumulated before it.                                                  *)
(***************************************************************************)
C1_FetchFailureAborts ==
    \A i \in 1..Len(fetchLog) :
        ~fetchLog[i].ok =>
            /\ i = Len(fetchLog)
            /\ pc = "idle"
            /\ err = "ConnectionError"
            /\ data = None /\ filtered_data = None
            /\ scrapeCache = None /\ loadCache = None
            /\ titles = <<>> /\ prices = <<>> /\ categories = <<>>

\* a detail fetch fails after a book of the run was already collected
C1_Witness ==
    /\ Len(fetchLog) >= 3
    /\ IsDetail(Last(fetchLog)) /\ ~Last(fetchLog).ok
    /\ \E i \in 1..(Len(fetchLog) - 1) : IsDetail(fetchLog[i]) /\ fetchLog[i].ok
    /\ err = "ConnectionError"

(***************************************************************************)
(* C2: when the collection returns, the DataFrame has exactly one row per  *)
(* product pod of the listing pages visited, in traversal order: pages     *)
(* ascending from 1, pods of a page in document order.                     *)
(***************************************************************************)
C2_RowsInTraversalOrder ==
    pc = "load_map" =>
        LET df == scrapeCache[1]
            keys == BookKeys(fetchLog, 1)
        IN  /\ WellFormed(df)
            /\ NRows(df) = Len(keys)
            /\ \A k \in 1..Len(keys) :
                  FrameRow(df, k) = Row(PodOf(fetchLog, keys[k]),
                                        DetailOf(fetchLog, keys[k]))

\* two different books on one page, returned in document order
C2_Witness ==
    /\ pc = "load_map"
    /\ \E p \in 1..PageCount :
          /\ Len(PodsOf(fetchLog, p)) = 2
          /\ PodsOf(fetchLog, p)[1].title # PodsOf(fetchLog, p)[2].title
    /\ NRows(scrapeCache[1]) = 2

(***************************************************************************)
(* C3 as stated: requests are issued one at a time in the fixed order, and *)
(* a run ends either with all PageCount listing requests and one detail    *)
(* request per book issued, or at its first failing request.               *)
(***************************************************************************)
\* what may follow request a in the log
FollowsInOrder(log, i) ==
    LET a == log[i]
        b == log[i + 1]
        n == Len(PodsOf(log, a.page))
    IN  /\ a.ok
        /\ IF IsListing(a) /\ n > 0
           THEN IsDetail(b) /\ b.page = a.page /\ b.idx = 1
           ELSE IF IsDetail(a) /\ a.idx < n
           THEN IsDetail(b) /\ b.page = a.page /\ b.idx = a.idx + 1
           ELSE IsListing(b) /\ b.page = a.page + 1 /\ b.page <= PageCount

FixedOrder(log) ==
    /\ log # <<>> => IsListing(log[1]) /\ log[1].page = 1
    /\ \A i \in 1..(Len(log) - 1) : FollowsInOrder(log, i)
    /\ \A i \in 1..Len(log) :
          /\ IsListing(log[i]) => log[i].url = ListingUrl(log[i].page)
          /\ IsDetail(log[i]) =>
                /\ log[i].idx \in 1..Len(PodsOf(log, log[i].page))
                /\ LET h == PodsOf(log, log[i].page)[log[i].idx].href
                   IN  log[i].url =
                          <<CatalogueBase>> \o SubSeq(h, Len(UpPrefix) + 1, Len(h))

C3_Original ==
    /\ FixedOrder(fetchLog)
    /\ RunEnded => Complete(fetchLog) \/ ~Last(fetchLog).ok

(***************************************************************************)
(* C3 amended: requests are issued one at a time in the fixed order, and a *)
(* run ends either by returning after all PageCount listing requests and   *)
(* one detail request per book, or at its first failure, which is a        *)
(* failing request or an error raised while a fetched document is          *)
(* processed; no request follows that failure.                             *)
(***************************************************************************)
C3_OrderAndEnding ==
    /\ FixedOrder(fetchLog)
    /\ RunEnded =>
          IF err \in CollectErrors
          THEN /\ pc = "idle" /\ data = None
               /\ Last(fetchLog).ok <=> err # "ConnectionError"
          ELSE Complete(fetchLog)

\* a run stopped by a processing error with every request answered
C3_Witness ==
    /\ RunEnded
    /\ err = "ValueError"
    /\ \A i \in 1..Len(fetchLog) : fetchLog[i].ok
    /\ ~Complete(fetchLog)
    /\ Len(fetchLog) >= 4

(***************************************************************************)
(* C4 as stated: the rating of a row is the five-entry lookup of its       *)
(* token, and a token outside the five fails the normalization, so that no *)
(* row is produced from such a token.                                      *)
(***************************************************************************)
FiveTokens == {"One", "Two", "Three", "Four", "Five"}

LookupHolds(raw, df) ==
    /\ NRows(df) = NRows(raw)
    /\ \A k \in 1..NRows(raw) :
          /\ raw.Rating[k] = "One" => df.Rating[k] = <<1>>
          /\ raw.Rating[k] = "Two" => df.Rating[k] = <<2>>
          /\ raw.Rating[k] = "Three" => df.Rating[k] = <<3>>
          /\ raw.Rating[k] = "Four" => df.Rating[k] = <<4>>
          /\ raw.Rating[k] = "Five" => df.Rating[k] = <<5>>

C4_Original ==
    data # None =>
        /\ LookupHolds(scrapeCache[1], data[1])
        /\ \A k \in 1..NRows(scrapeCache[1]) :
              scrapeCache[1].Rating[k] \in FiveTokens

(***************************************************************************)
(* C4 amended: the rating of a row is the five-entry lookup of its token;  *)
(* for a token outside the five, load_data raises nothing and the row is   *)
(* kept with an absent rating (NaN).                                       *)
(***************************************************************************)
C4_RatingLookup ==
    /\ pc = "load_map" => err = "" /\ data = None
    /\ data # None =>
          /\ LookupHolds(scrapeCache[1], data[1])
          /\ \A k \in 1..NRows(scrapeCache[1]) :
                scrapeCache[1].Rating[k] \notin FiveTokens =>
                    data[1].Rating[k] = NaN
    /\ pc = "loaded" => err = "" /\ data # None /\ data = loadCache

\* a dataset holding a row with a mapped rating and a row with an absent one
C4_Witness ==
    /\ pc = "loaded"
    /\ \E j, k \in 1..NRows(data[1]) :
          /\ scrapeCache[1].Rating[j] = "Six" /\ data[1].Rating[j] = NaN
          /\ scrapeCache[1].Rating[k] = "Four" /\ data[1].Rating[k] = <<4>>

(***************************************************************************)
(* C5: the price of a row is the number read from price_text without its   *)
(* first character, whatever that character is; when the remainder is no   *)
(* number the run ends there with ValueError raised to the script, and no  *)
(* dataset is returned or cached.                                          *)
(***************************************************************************)
Rest(t) == SubSeq(t, 2, Len(t))

C5_PriceParsed ==
    /\ pc = "load_map" =>
          LET keys == BookKeys(fetchLog, 1)
          IN  \A k \in 1..Len(keys) :
                 LET t == PodOf(fetchLog, keys[k]).price[1]
                 IN  /\ IsFloatLiteral(Rest(t))
                     /\ scrapeCache[1].Price[k] = FloatValue(Rest(t))
                     /\ t = <<"£", "1", ".", "5">> =>
                           scrapeCache[1].Price[k] = [m |-> 15, e |-> 1]
    /\ \A i \in 1..Len(fetchLog) :
          LET f == fetchLog[i]
          IN  (/\ IsDetail(f) /\ f.ok /\ CategoryError(f.doc) = ""
               /\ ~IsFloatLiteral(Rest(PodsOf(fetchLog, f.page)[f.idx].price[1])))
              => /\ i = Len(fetchLog)
                 /\ pc = "idle" /\ err = "ValueError"
                 /\ data = None /\ filtered_data = None
                 /\ scrapeCache = None /\ loadCache = None

\* "£a" on a book that follows a collected one
C5_Witness ==
    /\ err = "ValueError"
    /\ Len(fetchLog) >= 4
    /\ LET f == Last(fetchLog)
       IN  /\ IsDetail(f)
           /\ PodsOf(fetchLog, f.page)[f.idx].price[1] = <<"£", "a">>
    /\ data = None /\ scrapeCache = None

(***************************************************************************)
(* C6 as stated: the row carries title, availability_text, category and    *)
(* detail_url of its record unchanged, and no field is dropped.            *)
(***************************************************************************)
FiveColumns == {"Title", "Price", "Availability", "Rating", "Category"}

UrlOf(log, key) ==
    log[CHOOSE i \in DetailAt(log, key[1], key[2]) : TRUE].url

PassThrough(raw, df) ==
    /\ DOMAIN df = DOMAIN raw
    /\ NRows(df) = NRows(raw)
    /\ df.Title = raw.Title
    /\ df.Availability = raw.Availability
    /\ df.Category = raw.Category
    /\ df.Price = raw.Price

FromRecords(log, df) ==
    LET keys == BookKeys(log, 1)
    IN  /\ NRows(df) = Len(keys)
        /\ \A k \in 1..Len(keys) :
              /\ df.Title[k] = PodOf(log, keys[k]).title[1]
              /\ df.Availability[k] = Strip(PodOf(log, keys[k]).avail[1])
              /\ df.Category[k] = Strip(DetailOf(log, keys[k])[1][3])

DetailMiss(f) == IsDetail(f) /\ f.ok /\ CategoryError(f.doc) # ""
ListingMiss(f) == IsListing(f) /\ f.ok /\ f.doc = <<>>

AbortedAt(i) ==
    /\ i = Len(fetchLog)
    /\ pc = "idle"
    /\ err \in {"AttributeError", "IndexError"}
    /\ data = None /\ filtered_data = None
    /\ scrapeCache = None /\ loadCache = None

C7_Original ==
    \A i \in 1..Len(fetchLog) :
        (DetailMiss(fetchLog[i]) \/ ListingMiss(fetchLog[i])) => AbortedAt(i)

(***************************************************************************)
(* C7 amended: a detail page without breadcrumb, or with fewer than three  *)
(* breadcrumb items, ends the run with an error and no dataset; a listing  *)
(* page without product pod raises nothing: it adds no row and the run     *)
(* goes on with the next page, or returns when it was the last page.       *)
(***************************************************************************)
C7_StructuralMiss ==
    \A i \in 1..Len(fetchLog) :
        /\ DetailMiss(fetchLog[i]) => AbortedAt(i)
        /\ ListingMiss(fetchLog[i]) =>
              IF i < Len(fetchLog)
              THEN /\ IsListing(fetchLog[i + 1])
                   /\ fetchLog[i + 1].page = fetchLog[i].page + 1
              ELSE \/ pc = "listing" /\ page = fetchLog[i].page + 1
                   \/ /\ fetchLog[i].page = PageCount
                      /\ pc \in {"idle", "load_map", "loaded"}
                      /\ err \notin CollectErrors

\* a dataset returned by a run that met a listing page without product pod
C7_Witness ==
    /\ pc = "load_map"
    /\ NRows(scrapeCache[1]) >= 1
    /\ \E i \in 1..Len(fetchLog) :
          ListingMiss(fetchLog[i]) /\ fetchLog[i].page < PageCount

(***************************************************************************)
(* C8: between two invalidations the dataset is built at most once; once   *)
(* load_data() is cached, a run issues no request and takes the cached     *)
(* dataset; a run that starts on an empty cache collects afresh from page  *)
(* 1 and takes a dataset only from a complete collection, normalized.      *)
(***************************************************************************)
C8_CachedUntilCleared ==
    /\ [][/\ loadCache # None =>
                \/ loadCache' = loadCache
                \/ pc = "idle" /\ loadCache' = None /\ scrapeCache' = None
          /\ scrapeCache # None =>
                \/ scrapeCache' = scrapeCache
                \/ pc = "idle" /\ loadCache' = None /\ scrapeCache' = None
          /\ loadCache # None => fetchLog' \in {fetchLog, <<>>}
          /\ (loadCache # None /\ data' # data) => data' = loadCache
          /\ (pc = "idle" /\ pc' # "idle" /\ loadCache = None) =>
                /\ pc' = "listing" /\ page' = 1 /\ fetchLog' = <<>>
                /\ titles' = <<>> /\ data' = None
          /\ (loadCache = None /\ data' # data /\ data' # None) =>
                /\ Complete(fetchLog)
                /\ scrapeCache # None
                /\ data' = Some(MapRating(scrapeCache[1]))
                /\ loadCache' = data'
         ]_vars
    /\ [](pc = "loaded" => data # None /\ data = loadCache)

\* a rerun that was answered by the cache: no request, a dataset with rows
C8_Witness ==
    /\ pc = "loaded"
    /\ fetchLog = <<>>
    /\ data = loadCache
    /\ NRows(data[1]) = 2

(***************************************************************************)
(* C9: filtered_data is the subsequence, in dataset order, of the rows     *)
(* whose category is selected, whose price lies between min_price and      *)
(* max_price, both included, and whose rating is selected; the dataset is  *)
(* left as it was.                                                         *)
(***************************************************************************)
Selected(df, s, k) ==
    /\ df.Category[k] \in s.categories
    /\ s.min_price # NaN /\ s.max_price # NaN
    /\ s.min_price[1].m * Pow10(df.Price[k].e)
          <= df.Price[k].m * Pow10(s.min_price[1].e)
    /\ df.Price[k].m * Pow10(s.max_price[1].e)
          <= s.max_price[1].m * Pow10(df.Price[k].e)
    /\ df.Rating[k] # NaN /\ df.Rating[k][1] \in s.ratings

SelectedRows(df, s) == {k \in 1..NRows(df) : Selected(df, s, k)}

\* the j-th selected row
NthSelected(df, s, j) ==
    CHOOSE k \in SelectedRows(df, s) :
        Cardinality({i \in SelectedRows(df, s) : i <= k}) = j

C9_FilterIsSelection ==
    /\ data # None => data = loadCache /\ data[1] = MapRating(scrapeCache[1])
    /\ filtered_data # None =>
          LET df == data[1]
              out == filtered_data[1]
              s == sel[1]
          IN  /\ WellFormed(out)
              /\ NRows(out) = Cardinality(SelectedRows(df, s))
              /\ \A j \in 1..NRows(out) :
                    FrameRow(out, j) = FrameRow(df, NthSelected(df, s, j))

\* a row priced exactly max_price is kept while a dearer row is left out
C9_Witness ==
    /\ filtered_data # None
    /\ NRows(data[1]) = 2
    /\ NRows(filtered_data[1]) = 1
    /\ sel[1].max_price = Some(filtered_data[1].Price[1])
    /\ \E k \in 1..2 :
          /\ data[1].Price[k] # filtered_data[1].Price[1]
          /\ data[1].Category[k] \in sel[1].categories
          /\ IsIn(data[1].Rating[k], sel[1].ratings)

(***************************************************************************)
(* C10 as stated: no field is coerced before the last request of the run,  *)
(* so a format error arises only after all PageCount listing requests and  *)
(* all detail requests were issued.                                        *)
(***************************************************************************)
NoRequestAfterMapping ==
    /\ pc \in {"listing", "book"} => data = None /\ loadCache = None
    /\ pc = "load_map" => Complete(fetchLog)

OkDetails(log) == {i \in 1..Len(log) : IsDetail(log[i]) /\ log[i].ok}

====
